---- MODULE Spec2Model ----
(***************************************************************************)
(* Model of src/main.py: the sales-contract PDF service.                   *)
(*                                                                         *)
(*  - get_next_counter (lines 42-53): the file-backed sequence counter     *)
(*    guarded by the process-wide threading.Lock, one action per           *)
(*    statement, for NumRequests concurrent requests.  Every file          *)
(*    operation may raise; an exception unwinds through the with-blocks.   *)
(*    Requests are threads that interleave at every statement; the         *)
(*    event loop running one `async def` handler to its end is one of the  *)
(*    interleavings.                                                       *)
(*  - generate_pdf (lines 57-206): the request handler.  Under Spec the    *)
(*    rendering is one step that succeeds or raises; under LayoutSpec the  *)
(*    vertical-cursor layout of one request is modelled block by block.    *)
(***************************************************************************)
EXTENDS Integers, Sequences, FiniteSets, TLC

\* ---------------------------------------------------------------- bounds
NumRequests == 3

Requests == 1..NumRequests
NoOne == 0
NoValue == 0

VARIABLES
    store,      \* counter.txt: [exists, text], text a sequence of decimal digits
    fresh,      \* TRUE iff counter.txt did not exist when the process started
    lock,       \* holder of threading.Lock, NoOne when free
    pc,         \* position of each request
    count,      \* local `count` of get_next_counter, per request
    ret,        \* value get_next_counter is about to return, per request
    exc,        \* exception in flight, per request ("none" when none)
    pdf_number, \* local `pdf_number` of generate_pdf, per request
    response,   \* sequence number embedded in the response, per request
    entry,      \* counter.txt as the request inside `with lock:` found it
    \* --- one rendering of generate_pdf (the request record and the canvas)
    seller,         \* data.seller
    consignee,      \* data.consignee
    notify_party,   \* data.notify_party
    notify_lines,   \* local `notify_lines`
    lpc,            \* the block generate_pdf draws next
    y,              \* the vertical cursor `y`
    kvIndex,        \* number of dynamic_details pairs drawn so far
    kvValue,        \* value of the pair drawn last
    kvLabel,        \* drawString of the label of the pair drawn last
    kvLines,        \* drawStrings of the value lines of the pair drawn last
    partyDraws,     \* drawStrings of the party block, in drawing order
    tableAt,        \* where table.drawOn put the product table
    sigDraws        \* drawStrings of the acceptance block, in drawing order

cvars == <<store, fresh, lock, pc, count, ret, exc, pdf_number, response, entry>>
lvars == <<seller, consignee, notify_party, notify_lines, lpc, y, kvIndex,
           kvValue, kvLabel, kvLines, partyDraws, tableAt, sigDraws>>
vars == <<cvars, lvars>>

\* a drawString call: the text and where it is put
Draw(x, yy, text) == [x |-> x, y |-> yy, text |-> text]
NoDraw == Draw(0, 0, "")

\* ------------------------------------------------- str() and int() on digits
Digits == 0..9

RECURSIVE Str(_)
\* str(n) for n >= 0: the decimal digits, most significant first
Str(n) == IF n < 10 THEN <<n>> ELSE Append(Str(n \div 10), n % 10)

RECURSIVE IntOf(_)
\* int(s) for a non-empty digit string
IntOf(s) == IF Len(s) = 0 THEN 0
            ELSE 10 * IntOf(SubSeq(s, 1, Len(s) - 1)) + s[Len(s)]

\* int(s) raises ValueError on the empty string
Parses(s) == Len(s) > 0

\* f.seek(0); f.write(t); f.truncate(): t overwrites from offset 0 and the
\* file is cut at the position after the written text
SeekWriteTruncate(old, t) ==
    LET over == [i \in 1..(IF Len(old) > Len(t) THEN Len(old) ELSE Len(t)) |->
                    IF i <= Len(t) THEN t[i] ELSE old[i]]
    IN SubSeq(over, 1, Len(t))

Absent == [exists |-> FALSE, text |-> <<>>]
FileWith(t) == [exists |-> TRUE, text |-> t]

\* counter.txt at process start: never written, or left by an earlier run
InitStores == {Absent, FileWith(Str(9))}

\* no rendering is being followed block by block
LayoutIdle ==
    /\ seller = <<>>
    /\ consignee = <<>>
    /\ notify_party = <<>>
    /\ notify_lines = <<>>
    /\ lpc = "idle"
    /\ y = 0
    /\ kvIndex = 0
    /\ kvValue = <<>>
    /\ kvLabel = NoDraw
    /\ kvLines = <<>>
    /\ partyDraws = <<>>
    /\ tableAt = NoDraw
    /\ sigDraws = <<>>

Init ==
    /\ store \in InitStores
    /\ fresh = ~store.exists
    /\ lock = NoOne
    /\ pc = [r \in Requests |-> "idle"]
    /\ count = [r \in Requests |-> NoValue]
    /\ ret = [r \in Requests |-> NoValue]
    /\ exc = [r \in Requests |-> "none"]
    /\ pdf_number = [r \in Requests |-> NoValue]
    /\ response = [r \in Requests |-> NoValue]
    /\ entry = [r \in Requests |-> Absent]
    /\ LayoutIdle

\* ------------------------------------------------------- get_next_counter
\* generate_pdf line 58: the request calls get_next_counter
Call(r) ==
    /\ pc[r] = "idle"
    /\ pc' = [pc EXCEPT ![r] = "wait"]
    /\ UNCHANGED <<store, fresh, lock, count, ret, exc, pdf_number, response, entry>>
    /\ UNCHANGED lvars

\* Acquire as it would be if the lock were taken without waiting for it
Acquire_NoWait(r) ==
    /\ pc[r] = "wait"
    /\ lock' = r
    /\ pc' = [pc EXCEPT ![r] = "exists"]
    /\ entry' = [entry EXCEPT ![r] = store]
    /\ UNCHANGED <<store, fresh, count, ret, exc, pdf_number, response>>
    /\ UNCHANGED lvars

\* line 43: `with lock:` blocks until the lock is free
Acquire(r) ==
    /\ pc[r] = "wait"
    /\ lock = NoOne
    /\ lock' = r
    /\ pc' = [pc EXCEPT ![r] = "exists"]
    /\ entry' = [entry EXCEPT ![r] = store]
    /\ UNCHANGED <<store, fresh, count, ret, exc, pdf_number, response>>
    /\ UNCHANGED lvars

\* line 44: os.path.exists(COUNTER_FILE)
CheckExists(r) ==
    /\ pc[r] = "exists"
    /\ pc' = [pc EXCEPT ![r] = IF store.exists THEN "openrw" ELSE "openw"]
    /\ UNCHANGED <<store, fresh, lock, count, ret, exc, pdf_number, response, entry>>
    /\ UNCHANGED lvars

\* line 45: open(COUNTER_FILE, "w") creates the file, empty
OpenW(r) ==
    /\ pc[r] = "openw"
    /\ store' = FileWith(<<>>)
    /\ pc' = [pc EXCEPT ![r] = "writenew"]
    /\ UNCHANGED <<fresh, lock, count, ret, exc, pdf_number, response, entry>>
    /\ UNCHANGED lvars

\* line 45: open raises (permission denied), nothing is created
OpenWFail(r) ==
    /\ pc[r] = "openw"
    /\ exc' = [exc EXCEPT ![r] = "OSError"]
    /\ pc' = [pc EXCEPT ![r] = "unlock"]
    /\ UNCHANGED <<store, fresh, lock, count, ret, pdf_number, response, entry>>
    /\ UNCHANGED lvars

\* lines 46-47: f.write("1"), the file is closed, return 1
WriteNew(r) ==
    /\ pc[r] = "writenew"
    /\ store' = FileWith(SeekWriteTruncate(store.text, <<1>>))
    /\ ret' = [ret EXCEPT ![r] = 1]
    /\ pc' = [pc EXCEPT ![r] = "unlock"]
    /\ UNCHANGED <<fresh, lock, count, exc, pdf_number, response, entry>>
    /\ UNCHANGED lvars

\* line 46: the write fails when the file is flushed (disk full); the file
\* created by open stays, empty
WriteNewFail(r) ==
    /\ pc[r] = "writenew"
    /\ exc' = [exc EXCEPT ![r] = "OSError"]
    /\ pc' = [pc EXCEPT ![r] = "unlock"]
    /\ UNCHANGED <<store, fresh, lock, count, ret, pdf_number, response, entry>>
    /\ UNCHANGED lvars

\* line 48: open(COUNTER_FILE, "r+")
OpenRW(r) ==
    /\ pc[r] = "openrw"
    /\ pc' = [pc EXCEPT ![r] = "read"]
    /\ UNCHANGED <<store, fresh, lock, count, ret, exc, pdf_number, response, entry>>
    /\ UNCHANGED lvars

\* line 48: open raises (permission denied)
OpenRWFail(r) ==
    /\ pc[r] = "openrw"
    /\ exc' = [exc EXCEPT ![r] = "OSError"]
    /\ pc' = [pc EXCEPT ![r] = "unlock"]
    /\ UNCHANGED <<store, fresh, lock, count, ret, pdf_number, response, entry>>
    /\ UNCHANGED lvars

\* line 49: count = int(f.read()); ValueError when the text is no integer
Read(r) ==
    /\ pc[r] = "read"
    /\ IF Parses(store.text)
       THEN /\ count' = [count EXCEPT ![r] = IntOf(store.text)]
            /\ pc' = [pc EXCEPT ![r] = "write"]
            /\ exc' = exc
       ELSE /\ exc' = [exc EXCEPT ![r] = "ValueError"]
            /\ pc' = [pc EXCEPT ![r] = "unlock"]
            /\ count' = count
    /\ UNCHANGED <<store, fresh, lock, ret, pdf_number, response, entry>>
    /\ UNCHANGED lvars

\* lines 50-53: f.seek(0); f.write(str(count + 1)); f.truncate(); return count
Write(r) ==
    /\ pc[r] = "write"
    /\ store' = FileWith(SeekWriteTruncate(store.text, Str(count[r] + 1)))
    /\ ret' = [ret EXCEPT ![r] = count[r]]
    /\ pc' = [pc EXCEPT ![r] = "unlock"]
    /\ UNCHANGED <<fresh, lock, count, exc, pdf_number, response, entry>>
    /\ UNCHANGED lvars

\* lines 51-52: the buffered write fails when flushed; the file keeps its text
WriteFail(r) ==
    /\ pc[r] = "write"
    /\ exc' = [exc EXCEPT ![r] = "OSError"]
    /\ pc' = [pc EXCEPT ![r] = "unlock"]
    /\ UNCHANGED <<store, fresh, lock, count, ret, pdf_number, response, entry>>
    /\ UNCHANGED lvars

\* Unlock as it would be if the lock were kept across the return
Unlock_KeepsLock(r) ==
    /\ pc[r] = "unlock"
    /\ lock' = lock
    /\ IF exc[r] = "none"
       THEN /\ pdf_number' = [pdf_number EXCEPT ![r] = ret[r]]
            /\ pc' = [pc EXCEPT ![r] = "render"]
       ELSE /\ pdf_number' = pdf_number
            /\ pc' = [pc EXCEPT ![r] = "failed"]
    /\ count' = [count EXCEPT ![r] = NoValue]
    /\ ret' = [ret EXCEPT ![r] = NoValue]
    /\ entry' = [entry EXCEPT ![r] = Absent]
    /\ UNCHANGED <<store, fresh, exc, response>>
    /\ UNCHANGED lvars

\* line 43, leaving the with-block by return or by exception: the lock is
\* released and the locals are gone; line 58 binds pdf_number, or the
\* exception leaves generate_pdf
Unlock(r) ==
    /\ pc[r] = "unlock"
    /\ lock' = NoOne
    /\ IF exc[r] = "none"
       THEN /\ pdf_number' = [pdf_number EXCEPT ![r] = ret[r]]
            /\ pc' = [pc EXCEPT ![r] = "render"]
       ELSE /\ pdf_number' = pdf_number
            /\ pc' = [pc EXCEPT ![r] = "failed"]
    /\ count' = [count EXCEPT ![r] = NoValue]
    /\ ret' = [ret EXCEPT ![r] = NoValue]
    /\ entry' = [entry EXCEPT ![r] = Absent]
    /\ UNCHANGED <<store, fresh, exc, response>>
    /\ UNCHANGED lvars

\* ------------------------------------------------------------ generate_pdf
\* lines 59-206: the canvas is created, the blocks are drawn, c.save(), and
\* the Response carries the bytes and filename Sales_Contract_<pdf_number>.pdf
Render(r) ==
    /\ pc[r] = "render"
    /\ response' = [response EXCEPT ![r] = pdf_number[r]]
    /\ pc' = [pc EXCEPT ![r] = "done"]
    /\ UNCHANGED <<store, fresh, lock, count, ret, exc, pdf_number, entry>>
    /\ UNCHANGED lvars

\* lines 59-202: a drawing call raises; the exception leaves generate_pdf
RenderFail(r) ==
    /\ pc[r] = "render"
    /\ exc' = [exc EXCEPT ![r] = "RenderError"]
    /\ pc' = [pc EXCEPT ![r] = "renderfailed"]
    /\ UNCHANGED <<store, fresh, lock, count, ret, pdf_number, response, entry>>
    /\ UNCHANGED lvars

Next ==
    \E r \in Requests :
        \/ Call(r)
        \/ Acquire(r)
        \/ CheckExists(r)
        \/ OpenW(r)
        \/ OpenWFail(r)
        \/ WriteNew(r)
        \/ WriteNewFail(r)
        \/ OpenRW(r)
        \/ OpenRWFail(r)
        \/ Read(r)
        \/ Write(r)
        \/ WriteFail(r)
        \/ Unlock(r)
        \/ Render(r)
        \/ RenderFail(r)

Spec == Init /\ [][Next]_vars

\* ------------------------------------------------- generate_pdf, the layout
MaxPartyLen == 3
MaxValueLen == 2

\* the party lists of a record: the first n lines of an address, n from 0 to
\* MaxPartyLen, every line of every party a different text
SellerLines == <<"S1", "S2", "S3", "S4", "S5", "S6">>
ConsigneeLines == <<"C1", "C2", "C3", "C4", "C5", "C6">>
NotifyPartyLines == <<"N1", "N2", "N3", "N4", "N5", "N6">>
PartyLists(address) == {SubSeq(address, 1, n) : n \in 0..MaxPartyLen}

\* the characters of a field value (NL is the line break "\n"), and the values
NL == "\n"
Chars == {"a", NL}
Values == UNION {[1..n -> Chars] : n \in 0..MaxValueLen}

\* A4 is 841.89 points high; only differences of y are compared
PageHeight == 842
top_margin == PageHeight - 40
left_margin == 50
start_y == top_margin - 80
LineHeight == 14
x1 == 50
x2 == 230
x3 == 410
SigX1 == 50
SigX2 == 230
SigX3 == 400

\* the labels of dynamic_details, as drawn: f"{label}:"
Labels == <<"Packing:", "Loading Port:", "Destination Port:", "Shipment:",
            "Seller's Bank:", "Account No.:", "Documents:", "Payment Terms:">>

\* Split as it would be if only the first line break were honoured
Split_FirstBreakOnly(s) ==
    IF \A i \in DOMAIN s : s[i] # NL
    THEN <<s>>
    ELSE LET i == CHOOSE j \in DOMAIN s :
                      s[j] = NL /\ \A h \in 1..(j - 1) : s[h] # NL
         IN <<SubSeq(s, 1, i - 1), SubSeq(s, i + 1, Len(s))>>

RECURSIVE Split(_)
\* str.split("\n"): the segments between line breaks, empty segments kept
Split(s) ==
    IF \A i \in DOMAIN s : s[i] # NL
    THEN <<s>>
    ELSE LET i == CHOOSE j \in DOMAIN s :
                      s[j] = NL /\ \A h \in 1..(j - 1) : s[h] # NL
         IN <<SubSeq(s, 1, i - 1)>> \o Split(SubSeq(s, i + 1, Len(s)))

\* NotifyLines as it would be if an empty list were replaced by a blank line
NotifyLines_Blank(np) == IF np # <<>> THEN np ELSE <<"">>

\* notify_lines = data.notify_party if data.notify_party else ["TO ORDER"]
NotifyLines(np) == IF np # <<>> THEN np ELSE <<"TO ORDER">>

\* MaxLines as it would be if the notify column were left out of the maximum
MaxLines_NoNotify(s, c, n) == IF Len(s) >= Len(c) THEN Len(s) ELSE Len(c)

\* max(len(data.seller), len(data.consignee), len(notify_lines))
MaxLines(s, c, n) ==
    LET lens == {Len(s), Len(c), Len(n)}
    IN CHOOSE m \in lens : \A l \in lens : l <= m

\* the lines of one party column: line i at y - (i + 1) * 14, i from 0
ColumnDraws(x, yy, lines) ==
    [i \in 1..Len(lines) |-> Draw(x, yy - i * LineHeight, lines[i])]

\* data.seller[0] if data.seller else ""
FirstOrBlank(lines) == IF lines # <<>> THEN lines[1] ELSE ""

\* A request has its number and is handed a validated record
LayoutInit ==
    /\ store = FileWith(Str(1))
    /\ fresh = TRUE
    /\ lock = NoOne
    /\ pc = [r \in Requests |-> IF r = 1 THEN "render" ELSE "idle"]
    /\ count = [r \in Requests |-> NoValue]
    /\ ret = [r \in Requests |-> NoValue]
    /\ exc = [r \in Requests |-> "none"]
    /\ pdf_number = [r \in Requests |-> IF r = 1 THEN 1 ELSE NoValue]
    /\ response = [r \in Requests |-> NoValue]
    /\ entry = [r \in Requests |-> Absent]
    /\ seller \in PartyLists(SellerLines)
    /\ consignee \in PartyLists(ConsigneeLines)
    /\ notify_party \in PartyLists(NotifyPartyLines)
    /\ notify_lines = <<>>
    /\ lpc = "header"
    /\ y = 0
    /\ kvIndex = 0
    /\ kvValue = <<>>
    /\ kvLabel = NoDraw
    /\ kvLines = <<>>
    /\ partyDraws = <<>>
    /\ tableAt = NoDraw
    /\ sigDraws = <<>>

\* lines 59-95: canvas, margins, header, title and contract line; all at
\* fixed offsets from top_margin, the cursor is not involved
HeaderTitle ==
    /\ lpc = "header"
    /\ lpc' = "party"
    /\ UNCHANGED <<seller, consignee, notify_party, notify_lines, y, kvIndex,
                   kvValue, kvLabel, kvLines, partyDraws, tableAt, sigDraws>>
    /\ UNCHANGED cvars

\* lines 98-117: the three labels, the three columns, the cursor advance
PartyBlock ==
    /\ lpc = "party"
    /\ LET y0 == start_y - 60
           nl == NotifyLines(notify_party)
       IN /\ notify_lines' = nl
          /\ partyDraws' = <<Draw(x1, y0, "SELLER"),
                             Draw(x2, y0, "CONSIGNEE | NOTIFY PARTY 1"),
                             Draw(x3, y0, "NOTIFY PARTY 2")>>
                           \o ColumnDraws(x1, y0, seller)
                           \o ColumnDraws(x2, y0, consignee)
                           \o ColumnDraws(x3, y0, nl)
          /\ y' = y0 - ((MaxLines(seller, consignee, nl) + 2) * LineHeight)
    /\ lpc' = "table"
    /\ UNCHANGED <<seller, consignee, notify_party, kvIndex, kvValue, kvLabel,
                   kvLines, tableAt, sigDraws>>
    /\ UNCHANGED cvars

\* lines 120-136: the product table is put at y - 100, the cursor moves 130
ProductTable ==
    /\ lpc = "table"
    /\ tableAt' = Draw(left_margin, y - 100, "table")
    /\ y' = y - 130
    /\ lpc' = "fields"
    /\ UNCHANGED <<seller, consignee, notify_party, notify_lines, kvIndex,
                   kvValue, kvLabel, kvLines, partyDraws, sigDraws>>
    /\ UNCHANGED cvars

\* lines 149-156: one iteration of the dynamic_details loop, for the field
\* value `value` of the record
KeyValuePair ==
    /\ lpc = "fields"
    /\ \E value \in Values :
         LET segs == Split(value)
         IN /\ kvValue' = value
            /\ kvLabel' = Draw(left_margin, y, Labels[kvIndex + 1])
            /\ kvLines' = [j \in 1..Len(segs) |->
                              Draw(left_margin + 100, y - (j - 1) * LineHeight, segs[j])]
            /\ y' = y - Len(segs) * LineHeight - 4
    /\ kvIndex' = kvIndex + 1
    /\ lpc' = IF kvIndex + 1 = Len(Labels) THEN "static" ELSE "fields"
    /\ UNCHANGED <<seller, consignee, notify_party, notify_lines, partyDraws,
                   tableAt, sigDraws>>
    /\ UNCHANGED cvars

\* lines 159-180: two clauses of four lines each, 6 after each clause
StaticDetails ==
    /\ lpc = "static"
    /\ y' = y - 2 * (4 * LineHeight + 6)
    /\ lpc' = "accept"
    /\ UNCHANGED <<seller, consignee, notify_party, notify_lines, kvIndex,
                   kvValue, kvLabel, kvLines, partyDraws, tableAt, sigDraws>>
    /\ UNCHANGED cvars

\* lines 183-193: "Accepted", the three captions 20 below, the three names
\* 50 below the captions
AcceptanceBlock ==
    /\ lpc = "accept"
    /\ sigDraws' = <<Draw(SigX1, y - 20, "For, Seller"),
                     Draw(SigX2, y - 20, "For, Consignee"),
                     Draw(SigX3, y - 20, "For, Notify Party"),
                     Draw(SigX1, y - 70, FirstOrBlank(seller)),
                     Draw(SigX2, y - 70, FirstOrBlank(consignee)),
                     Draw(SigX3, y - 70, notify_lines[1])>>
    /\ y' = y - 70
    /\ lpc' = "footer"
    /\ UNCHANGED <<seller, consignee, notify_party, notify_lines, kvIndex,
                   kvValue, kvLabel, kvLines, partyDraws, tableAt>>
    /\ UNCHANGED cvars

\* lines 196-206: the footer at its fixed place, c.save(), the response
FooterSave ==
    /\ lpc = "footer"
    /\ lpc' = "saved"
    /\ UNCHANGED <<seller, consignee, notify_party, notify_lines, y, kvIndex,
                   kvValue, kvLabel, kvLines, partyDraws, tableAt, sigDraws>>
    /\ UNCHANGED cvars

LayoutNext ==
    \/ HeaderTitle
    \/ PartyBlock
    \/ ProductTable
    \/ KeyValuePair
    \/ StaticDetails
    \/ AcceptanceBlock
    \/ FooterSave

LayoutSpec == LayoutInit /\ [][LayoutNext]_vars

\* the statements of request r inside `with lock:` other than taking the lock
Body(r) ==
    \/ CheckExists(r) \/ OpenW(r) \/ OpenWFail(r) \/ WriteNew(r)
    \/ WriteNewFail(r) \/ OpenRW(r) \/ OpenRWFail(r) \/ Read(r)
    \/ Write(r) \/ WriteFail(r) \/ Unlock(r)

\* Fair scheduling: a thread that can run a statement eventually runs it, and
\* a thread waiting for a lock that is free again and again eventually gets it
FairSpec ==
    /\ Init /\ [][Next]_vars
    /\ \A r \in Requests : SF_vars(Acquire(r)) /\ WF_vars(Body(r))

\* ------------------------------------------------------------------ states
\* request r is inside the read-modify-write of get_next_counter
InCS(r) == pc[r] \in {"exists", "openw", "writenew", "openrw", "read",
                      "write", "unlock"}

\* get_next_counter has returned a value to request r
Returned(r) == pc[r] \in {"render", "renderfailed", "done"}

\* request r is in the rendering part of generate_pdf or past it
Rendering(r) == pc[r] \in {"render", "renderfailed", "done"}

AllocErrors == {"OSError", "ValueError"}

\* no counter-store failure has happened so far
NoStoreFailure ==
    /\ \A r \in Requests : exc[r] \notin AllocErrors
    /\ store.exists /\ ~Parses(store.text) => \E r \in Requests : pc[r] = "writenew"

ReturnedRequests == {r \in Requests : Returned(r)}

\* ------------------------------------------------------------------ claims

\* C1: against a fresh counter store and without store failures, the values
\* returned by the calls that have returned are exactly {1, ..., N} for N the
\* number of those calls: no value twice, no value skipped.
C1_ReturnsOneToN ==
    (fresh /\ NoStoreFailure) =>
        /\ {pdf_number[r] : r \in ReturnedRequests} = 1..Cardinality(ReturnedRequests)
        /\ \A r, q \in ReturnedRequests : r # q => pdf_number[r] # pdf_number[q]

\* C2: when the store has never been written, the first call returns 1 and
\* leaves the store created and holding 2, the next number to hand out.
C2_FirstCallLeavesTwo ==
    \A r \in Requests :
        (/\ fresh /\ NoStoreFailure
         /\ Returned(r)
         /\ \A q \in Requests \ {r} : pc[q] \in {"idle", "wait"})
        => /\ pdf_number[r] = 1
           /\ store = FileWith(Str(2))

\* C3: at most one request is inside the counter's read-modify-write; a
\* request that finds the lock held waits, it does not fail; under fair
\* scheduling every waiting request eventually gets the lock and leaves
\* get_next_counter with its number (or with the store's I/O error).
C3_MutexWaitProgress ==
    /\ [](\A r, q \in Requests : r # q => ~(InCS(r) /\ InCS(q)))
    /\ [][\A r \in Requests :
            (pc[r] = "wait" /\ lock # NoOne) => pc'[r] = "wait"]_vars
    /\ \A r \in Requests :
            (pc[r] = "wait") ~> (Returned(r) \/ pc[r] = "failed")

\* C3 witness: a request waits while another is writing the counter
C3_Witness ==
    \E r, q \in Requests : r # q /\ pc[r] = "write" /\ lock = r /\ pc[q] = "wait"

\* C4: a request whose allocation fails on the counter store gets no number,
\* never renders, returns no document, no longer holds the lock once the
\* exception has left get_next_counter, and leaves the store as it found it.
C4_FailedAllocationLeavesStore ==
    \A r \in Requests :
        exc[r] \in AllocErrors =>
            /\ pc[r] \in {"unlock", "failed"}
            /\ pdf_number[r] = NoValue
            /\ response[r] = NoValue
            /\ pc[r] = "failed" => lock # r
            /\ pc[r] = "unlock" => store = entry[r]

\* C5: a value get_next_counter has returned stays consumed: a rendering
\* failure leaves the store unchanged, the stored counter never decreases,
\* and no later request is given a value an earlier request was given.
C5_ValueStaysConsumed ==
    [][/\ \A r \in Requests :
            (pc[r] = "render" /\ pc'[r] = "renderfailed") => store' = store
       /\ (Parses(store.text) /\ Parses(store'.text))
            => IntOf(store'.text) >= IntOf(store.text)
       /\ \A r, q \in Requests :
            (Returned(r) /\ ~Returned(q) /\ Returned(q)')
                => pdf_number'[q] # pdf_number[r]]_vars

\* C9: a request in the rendering part of generate_pdf does not hold the
\* counter lock; the lock is held only inside get_next_counter's
\* read-modify-write, so with a request rendering the lock is free unless
\* another request is inside its own allocation.
C9_RenderingHoldsNoLock ==
    /\ \A r \in Requests : Rendering(r) => lock # r
    /\ \A r \in Requests : lock = r => InCS(r)
    /\ lock = NoOne <=> \A r \in Requests : ~InCS(r)

\* C9 witness: one request renders while another is inside its allocation
C9_Witness ==
    \E r, q \in Requests : pc[r] = "render" /\ pc[q] = "write" /\ lock = q

\* ------------------------------------------------------- claims, the layout

\* the party block has been drawn
PartyDrawn == lpc \in {"table", "fields", "static", "accept", "footer", "saved"}

\* C6: the party block moves the cursor exactly (max(|seller|, |consignee|,
\* |notify|) + 2) line-heights of 14 below the label row, an empty
\* notify_party counting as the one line "TO ORDER"; never less than 3.
C6_PartyAdvance ==
    lpc = "table" =>
        LET labelY == partyDraws[1].y
            n == IF notify_party = <<>> THEN 1 ELSE Len(notify_party)
            longest == IF Len(seller) >= Len(consignee) /\ Len(seller) >= n
                       THEN Len(seller)
                       ELSE IF Len(consignee) >= n THEN Len(consignee) ELSE n
        IN /\ labelY - y = (longest + 2) * 14
           /\ labelY - y >= 3 * 14

\* C6 witness: unequal lengths, notify_party empty
C6_Witness ==
    /\ lpc = "table"
    /\ Len(seller) = 3 /\ Len(consignee) = 2 /\ notify_party = <<>>

RECURSIVE JoinNL(_)
\* the segments put together again with a line break between neighbours
JoinNL(segs) ==
    IF Len(segs) = 1 THEN segs[1]
    ELSE segs[1] \o <<NL>> \o JoinNL(Tail(segs))

\* C7: a field value with k line breaks is drawn as k + 1 lines in order, all
\* at the value column left margin + 100, one line-height apart, the label
\* once at the left margin on the first line's baseline; the cursor moves
\* (k + 1) * 14 + 4; no line holds a line break and the lines, joined by
\* line breaks, are the value.
C7_ValueLines ==
    (lpc \in {"fields", "static"} /\ kvIndex >= 1) =>
        LET k == Cardinality({i \in DOMAIN kvValue : kvValue[i] = NL})
        IN /\ Len(kvLines) = k + 1
           /\ \A j \in DOMAIN kvLines :
                /\ kvLines[j].x = 50 + 100
                /\ kvLines[j].y = kvLabel.y - (j - 1) * 14
                /\ \A i \in DOMAIN kvLines[j].text : kvLines[j].text[i] # NL
           /\ JoinNL([j \in DOMAIN kvLines |-> kvLines[j].text]) = kvValue
           /\ kvLabel.x = 50
           /\ kvLabel.text = Labels[kvIndex]
           /\ kvLabel.y - y = (k + 1) * 14 + 4

\* C7 witness: the last field, payment terms, with a value of two line
\* breaks only
C7_Witness ==
    /\ lpc = "static" /\ kvIndex = 8
    /\ kvValue = <<NL, NL>>

\* the lines drawn in the third column of the party block, under its label
ThirdColumn ==
    SelectSeq(partyDraws, LAMBDA d : d.x = partyDraws[3].x /\ d.y < partyDraws[3].y)

\* C8: with notify_party empty the third column is exactly the one line
\* "TO ORDER" and the signature block's notify line reads "TO ORDER"; with
\* notify_party non-empty the third column is exactly its lines in order and
\* the signature line is its first line.
C8_NotifyToOrder ==
    LET expected == IF notify_party = <<>> THEN <<"TO ORDER">> ELSE notify_party
    IN /\ PartyDrawn =>
            /\ Len(ThirdColumn) = Len(expected)
            /\ \A i \in DOMAIN expected :
                 /\ ThirdColumn[i].text = expected[i]
                 /\ ThirdColumn[i].y = partyDraws[3].y - i * 14
       /\ lpc \in {"footer", "saved"} => sigDraws[6].text = expected[1]

\* C8 witness: the signature block is drawn for an empty notify_party
C8_Witness ==
    /\ lpc = "footer" /\ notify_party = <<>> /\ sigDraws[6].text = "TO ORDER"

\* C10: the three captions and the three names of the acceptance block are
\* at the x-offsets of the party block's three columns, column for column.
C10_SignatureColumns ==
    lpc \in {"footer", "saved"} =>
        \A i \in 1..3 :
            /\ sigDraws[i].x = partyDraws[i].x
            /\ sigDraws[i + 3].x = partyDraws[i].x
====
